---- MODULE Spec2Model ----
(***************************************************************************)
(* The profile-builder scripts of portel-dev/ncp as one state machine.     *)
(* A behaviour is one run of one script (build-profile may be run again on *)
(* the file it wrote).  Text that the scripts parse, join or order is a    *)
(* TLA+ string, which is a sequence of characters: SubSeq(s, i, i) is the  *)
(* i-th character of s.                                                    *)
(***************************************************************************)
EXTENDS Integers, Sequences, FiniteSets, TLC

VARIABLES
    script,            \* which script is running
    pc,                \* position in the script
    csv,               \* the CSV source file: [readable, rows]
    curated,           \* /tmp/curated-mcp-names.txt: [readable, lines]
    outfile,           \* the output profile file: [exists, content]
    profile,           \* the in-memory profile document
    mcps,              \* the filtered row list (active_mcps / production_mcps / mcps)
    idx,               \* 1-based position of the running loop
    production_count,  \* build-live-ecosystem counter
    curated_count,     \* build-live-ecosystem counter
    calls,             \* argument vectors handed to subprocess.run by add-mcps
    working_packages,  \* create-working-profile result list
    failed_packages,   \* create-working-profile result list
    exit_code,         \* process exit status, meaningful once pc = "done"
    written,           \* TRUE once this run has written the output file
    clock,             \* number of datetime.now() calls so far; stands for the time
    runs               \* number of the current run of the script

vars == <<script, pc, csv, curated, outfile, profile, mcps, idx, production_count,
          curated_count, calls, working_packages, failed_packages, exit_code,
          written, clock, runs>>

----------------------------------------------------------------------------
(* Bounds of the model.                                                    *)

\* Longest CSV source, in rows.
MaxRows == 2
\* Longest curated-names file, in lines.
MaxLines == 2
\* How many times build-profile is run on the same output file.
MaxRuns == 2
\* How many times, in one run, npm's answer to a probe differs in kind from
\* its answer to the probe before.
MaxChanges == 1

----------------------------------------------------------------------------
(* Python's string operations.                                             *)

\* The characters str.split() and str.strip() treat as whitespace (those
\* of str.isspace()): blank, U+0009 to U+000D, U+001C to U+001F, U+0085,
\* U+00A0 and U+1680, each written as itself.  The remaining ones (U+2000
\* to U+200A, U+2028, U+2029, U+202F, U+205F, U+3000) cannot occur in a
\* string of this module: the parser rejects them inside a string.
Whitespace ==
    {" ", "\t", "\n", "\r", "\f", "", "", "", "", "", "", " ", " "}

Char(s, i) == SubSeq(s, i, i)

\* c in s, for a single character c
Contains(s, c) == \E i \in 1..Len(s) : Char(s, i) = c

\* The printable ASCII characters in code-point order: U+0020 to U+005F, and
\* U+0061 to U+007E (U+0060 cannot be written in a TLA+ string).
PrintableLow == " !\"#$%&'()*+,-./0123456789:;<=>?@ABCDEFGHIJKLMNOPQRSTUVWXYZ[\\]^_"
PrintableHigh == "abcdefghijklmnopqrstuvwxyz{|}~"

\* ord(c) for the printable ASCII characters.
CodePoint(c) ==
    IF Contains(PrintableLow, c)
    THEN 31 + (CHOOSE i \in 1..Len(PrintableLow) : Char(PrintableLow, i) = c)
    ELSE 96 + (CHOOSE i \in 1..Len(PrintableHigh) : Char(PrintableHigh, i) = c)

\* s.startswith(prefix)
startswith(s, prefix) ==
    /\ Len(s) >= Len(prefix)
    /\ SubSeq(s, 1, Len(prefix)) = prefix

RECURSIVE lstrip(_)
lstrip(s) ==
    IF s = "" THEN ""
    ELSE IF Head(s) \in Whitespace THEN lstrip(Tail(s))
    ELSE s

RECURSIVE rstrip(_)
rstrip(s) ==
    IF s = "" THEN ""
    ELSE IF Char(s, Len(s)) \in Whitespace THEN rstrip(SubSeq(s, 1, Len(s) - 1))
    ELSE s

\* s.strip()
strip(s) == rstrip(lstrip(s))

\* The scan behind s.split(): cur is the token being read, acc the tokens
\* already closed; a whitespace character closes cur when it is not empty.
RECURSIVE SplitScan(_, _, _, _)
SplitScan(s, i, cur, acc) ==
    IF i > Len(s)
    THEN IF cur = "" THEN acc ELSE Append(acc, cur)
    ELSE IF Char(s, i) \in Whitespace
    THEN SplitScan(s, i + 1, "", IF cur = "" THEN acc ELSE Append(acc, cur))
    ELSE SplitScan(s, i + 1, cur \o Char(s, i), acc)

\* A split that knows the space character only.
SplitOnSpaces(s) ==
    LET RECURSIVE scan(_, _, _)
        scan(i, cur, acc) ==
            IF i > Len(s)
            THEN IF cur = "" THEN acc ELSE Append(acc, cur)
            ELSE IF Char(s, i) = " "
            THEN scan(i + 1, "", IF cur = "" THEN acc ELSE Append(acc, cur))
            ELSE scan(i + 1, cur \o Char(s, i), acc)
    IN  scan(1, "", <<>>)

\* s.split(): the maximal runs of non-whitespace characters, in order.
split(s) == SplitScan(s, 1, "", <<>>)

\* s.split(sep) for a single character sep: the pieces between separators,
\* empty pieces included.
RECURSIVE SepScan(_, _, _, _, _)
SepScan(s, sep, i, cur, acc) ==
    IF i > Len(s) THEN Append(acc, cur)
    ELSE IF Char(s, i) = sep
    THEN SepScan(s, sep, i + 1, "", Append(acc, cur))
    ELSE SepScan(s, sep, i + 1, cur \o Char(s, i), acc)

split_on(s, sep) == SepScan(s, sep, 1, "", <<>>)

\* sep.join(parts)
RECURSIVE join(_, _)
join(sep, parts) ==
    IF parts = <<>> THEN ""
    ELSE IF Len(parts) = 1 THEN parts[1]
    ELSE parts[1] \o sep \o join(sep, Tail(parts))

\* a < b for Python strings: by code point, a proper prefix first.
RECURSIVE StrLess(_, _)
StrLess(a, b) ==
    IF b = "" THEN FALSE
    ELSE IF a = "" THEN TRUE
    ELSE IF Head(a) = Head(b) THEN StrLess(Tail(a), Tail(b))
    ELSE CodePoint(Head(a)) < CodePoint(Head(b))

\* sorted(list(S)) for a set S of strings
RECURSIVE sorted(_)
sorted(S) ==
    IF S = {} THEN <<>>
    ELSE LET least == CHOOSE x \in S : \A y \in S : x = y \/ StrLess(x, y)
         IN  <<least>> \o sorted(S \ {least})

\* d.get(key, default)
Get(d, key, default) == IF key \in DOMAIN d THEN d[key] ELSE default

\* A dict with no keys.
EmptyDict == [k \in {} |-> ""]

\* d[key] = value
Put(d, key, value) == [k \in DOMAIN d \cup {key} |-> IF k = key THEN value ELSE d[k]]

----------------------------------------------------------------------------
(* build-live-ecosystem.py: the static name -> package table.              *)

real_mcp_mappings ==
    ("filesystem-mcp" :> "@modelcontextprotocol/server-filesystem") @@
    ("memory-mcp" :> "@modelcontextprotocol/server-memory") @@
    ("brave-search-mcp" :> "@modelcontextprotocol/server-brave-search") @@
    ("slack-mcp" :> "@modelcontextprotocol/server-slack") @@
    ("puppeteer-mcp" :> "@modelcontextprotocol/server-puppeteer") @@
    ("postgres-mcp" :> "@modelcontextprotocol/server-postgres") @@
    ("sqlite-mcp" :> "@modelcontextprotocol/server-sqlite") @@
    ("git-mcp" :> "@modelcontextprotocol/server-git") @@
    ("everything-mcp" :> "@modelcontextprotocol/server-everything") @@
    ("fetch-mcp" :> "@modelcontextprotocol/server-fetch") @@
    ("inspector-mcp" :> "@modelcontextprotocol/inspector") @@
    ("sequential-thinking-mcp" :> "@modelcontextprotocol/server-sequential-thinking") @@
    ("azure-mcp" :> "@azure/azure-mcp") @@
    ("playwright-mcp" :> "@microsoft/mcp-playwright") @@
    ("markitdown-mcp" :> "@microsoft/mcp-markitdown") @@
    ("docker-mcp" :> "@docker/mcp-server") @@
    ("supabase-mcp" :> "@supabase/mcp-server-supabase") @@
    ("browserbase-mcp" :> "@browserbase/mcp-server-browserbase") @@
    ("elevenlabs-mcp" :> "@elevenlabs/elevenlabs-mcp") @@
    ("sanity-mcp" :> "@sanity-io/sanity-mcp-server") @@
    ("dataforseo-mcp" :> "@dataforseo/mcp-server-typescript") @@
    ("chroma-mcp" :> "@chroma-core/chroma-mcp") @@
    ("apidog-mcp" :> "@apidog/mcp-server") @@
    ("github-mcp" :> "github-mcp-server") @@
    ("aws-mcp" :> "@aws/aws-mcp") @@
    ("gcp-mcp" :> "@google-cloud/mcp-server") @@
    ("aws-bedrock-mcp" :> "@aws/bedrock-mcp-server") @@
    ("digitalocean-mcp" :> "@digitalocean/mcp-server") @@
    ("kubernetes-mcp" :> "@kubernetes/mcp-server") @@
    ("terraform-mcp" :> "@hashicorp/terraform-mcp-server") @@
    ("helm-mcp" :> "@helm/mcp-server") @@
    ("nomad-mcp" :> "@hashicorp/nomad-mcp-server") @@
    ("consul-mcp" :> "@hashicorp/consul-mcp-server") @@
    ("vault-mcp" :> "@hashicorp/vault-mcp-server") @@
    ("pulumi-mcp" :> "@pulumi/mcp-server") @@
    ("mongodb-mcp" :> "@mongodb/mcp-server") @@
    ("redis-mcp" :> "@redis/mcp-server") @@
    ("elasticsearch-mcp" :> "@elastic/mcp-server") @@
    ("cassandra-mcp" :> "@cassandra/mcp-server") @@
    ("dynamodb-mcp" :> "@aws/dynamodb-mcp-server") @@
    ("couchdb-mcp" :> "@couchdb/mcp-server") @@
    ("influxdb-mcp" :> "@influxdata/mcp-server") @@
    ("neo4j-mcp" :> "@neo4j/mcp-server") @@
    ("mysql-mcp" :> "@mysql/mcp-server") @@
    ("mariadb-mcp" :> "@mariadb/mcp-server") @@
    ("solr-mcp" :> "@apache/solr-mcp-server") @@
    ("discord-mcp" :> "@discord/mcp-server") @@
    ("telegram-mcp" :> "@telegram/mcp-server") @@
    ("teams-mcp" :> "@microsoft/teams-mcp-server") @@
    ("webex-mcp" :> "@cisco/webex-mcp-server") @@
    ("zoom-mcp" :> "@zoom/mcp-server") @@
    ("whatsapp-mcp" :> "@whatsapp/mcp-server") @@
    ("twitter-mcp" :> "@twitter/mcp-server") @@
    ("linkedin-mcp" :> "@linkedin/mcp-server") @@
    ("facebook-mcp" :> "@facebook/mcp-server") @@
    ("instagram-mcp" :> "@instagram/mcp-server") @@
    ("pinterest-mcp" :> "@pinterest/mcp-server") @@
    ("reddit-mcp" :> "@reddit/mcp-server") @@
    ("medium-mcp" :> "@medium/mcp-server") @@
    ("youtube-mcp" :> "@youtube/mcp-server") @@
    ("tiktok-mcp" :> "@tiktok/mcp-server") @@
    ("openai-mcp" :> "@openai/mcp-server") @@
    ("huggingface-mcp" :> "@huggingface/mcp-server") @@
    ("langchain-mcp" :> "@langchain/mcp-server") @@
    ("cohere-mcp" :> "@cohere/mcp-server") @@
    ("anthropic-mcp" :> "@anthropic/mcp-server") @@
    ("google-ai-mcp" :> "@google/ai-mcp-server") @@
    ("pytorch-mcp" :> "@pytorch/mcp-server") @@
    ("tensorflow-mcp" :> "@tensorflow/mcp-server") @@
    ("mlflow-mcp" :> "@mlflow/mcp-server") @@
    ("wandb-mcp" :> "@wandb/mcp-server") @@
    ("kubeflow-mcp" :> "@kubeflow/mcp-server") @@
    ("jira-mcp" :> "@atlassian/jira-mcp-server") @@
    ("gitlab-mcp" :> "@gitlab/mcp-server") @@
    ("bitbucket-mcp" :> "@atlassian/bitbucket-mcp-server") @@
    ("linear-mcp" :> "@linear/mcp-server") @@
    ("asana-mcp" :> "@asana/mcp-server") @@
    ("trello-mcp" :> "@trello/mcp-server") @@
    ("monday-mcp" :> "@monday/mcp-server") @@
    ("clickup-mcp" :> "@clickup/mcp-server") @@
    ("notion-mcp" :> "@notion/mcp-server") @@
    ("contentful-mcp" :> "@contentful/mcp-server") @@
    ("wordpress-mcp" :> "@wordpress/mcp-server") @@
    ("drupal-mcp" :> "@drupal/mcp-server") @@
    ("joomla-mcp" :> "@joomla/mcp-server") @@
    ("ghost-mcp" :> "@ghost/mcp-server") @@
    ("strapi-mcp" :> "@strapi/mcp-server") @@
    ("woocommerce-mcp" :> "@woocommerce/mcp-server") @@
    ("magento-mcp" :> "@magento/mcp-server") @@
    ("shopify-mcp" :> "@shopify/mcp-server") @@
    ("bing-search-mcp" :> "@microsoft/bing-search-mcp-server") @@
    ("google-search-mcp" :> "@google/search-mcp-server") @@
    ("duckduckgo-mcp" :> "@duckduckgo/mcp-server") @@
    ("sphinx-search-mcp" :> "@sphinx/search-mcp-server") @@
    ("grafana-mcp" :> "@grafana/mcp-server") @@
    ("datadog-mcp" :> "@datadog/mcp-server") @@
    ("newrelic-mcp" :> "@newrelic/mcp-server") @@
    ("sentry-mcp" :> "@sentry/mcp-server") @@
    ("prometheus-mcp" :> "@prometheus/mcp-server") @@
    ("splunk-mcp" :> "@splunk/mcp-server") @@
    ("logzio-mcp" :> "@logz/mcp-server") @@
    ("stripe-mcp" :> "@stripe/mcp-server") @@
    ("paypal-mcp" :> "@paypal/mcp-server") @@
    ("square-mcp" :> "@square/mcp-server") @@
    ("email-mcp" :> "@email/mcp-server") @@
    ("sendgrid-mcp" :> "@sendgrid/mcp-server") @@
    ("mailchimp-mcp" :> "@mailchimp/mcp-server") @@
    ("twilio-mcp" :> "@twilio/mcp-server") @@
    ("figma-mcp" :> "@figma/mcp-server") @@
    ("miro-mcp" :> "@miro/mcp-server") @@
    ("invision-mcp" :> "@invision/mcp-server") @@
    ("shell-mcp" :> "@shell/mcp-server") @@
    ("ssh-mcp" :> "@ssh/mcp-server") @@
    ("ftp-mcp" :> "@ftp/mcp-server") @@
    ("rsync-mcp" :> "@rsync/mcp-server") @@
    ("tar-mcp" :> "@tar/mcp-server") @@
    ("zip-mcp" :> "@zip/mcp-server") @@
    ("systemd-mcp" :> "@systemd/mcp-server") @@
    ("nginx-mcp" :> "@nginx/mcp-server") @@
    ("cron-mcp" :> "@cron/mcp-server") @@
    ("logs-mcp" :> "@logs/mcp-server") @@
    ("1password-mcp" :> "@1password/mcp-server") @@
    ("bitwarden-mcp" :> "@bitwarden/mcp-server") @@
    ("lastpass-mcp" :> "@lastpass/mcp-server") @@
    ("auth0-mcp" :> "@auth0/mcp-server") @@
    ("okta-mcp" :> "@okta/mcp-server") @@
    ("cyberark-mcp" :> "@cyberark/mcp-server") @@
    ("django-mcp" :> "@django/mcp-server") @@
    ("flask-mcp" :> "@flask/mcp-server") @@
    ("express-mcp" :> "@express/mcp-server") @@
    ("fastapi-mcp" :> "@fastapi/mcp-server") @@
    ("graphql-mcp" :> "@graphql/mcp-server") @@
    ("grpc-mcp" :> "@grpc/mcp-server") @@
    ("restapi-mcp" :> "@restapi/mcp-server") @@
    ("http-mcp" :> "@http/mcp-server") @@
    ("websocket-mcp" :> "@websocket/mcp-server") @@
    ("webscraping-mcp" :> "@webscraping/mcp-server") @@
    ("wikipedia-mcp" :> "@wikipedia/mcp-server") @@
    ("context7" :> "@context7/mcp-server") @@
    ("apache-mcp" :> "@apache/mcp-server") @@
    ("algolia-mcp" :> "@algolia/mcp-server") @@
    ("elastic-apm-mcp" :> "@elastic/apm-mcp-server")

----------------------------------------------------------------------------
(* Inputs: the files a run finds.                                          *)

BuildProfile == "build-profile"
AddMcps == "add-mcps"
BuildTopProfile == "build-top-profile"
BuildLiveEcosystem == "build-live-ecosystem"
CreateWorkingProfile == "create-working-profile"

\* The status value a script's filter keeps.
EligibleStatus(s) ==
    IF s \in {BuildProfile, AddMcps} THEN "active" ELSE "production"

\* All sequences over S of length at most n.
SeqsUpTo(S, n) == UNION {[1..k -> S] : k \in 0..n}

\* A CSV row as csv.DictReader yields it, every column present.
Row(name, command, status, category) ==
    [mcp_name |-> name, command |-> command, status |-> status,
     description |-> name \o " server", category |-> category,
     downloads |-> "1000", repository_url |-> "https://example.com/" \o name]

\* The status value the other family of scripts keeps.
OtherStatus(el) == IF el = "active" THEN "production" ELSE "active"

\* Rows of a CSV with all columns, for a script keeping status el: a launch
\* command with a flag, a second row of the same name whose command has a
\* tab, a blank followed by U+00A0 and a final U+000B, a docker and a wrangler command, a name the
\* curated table also knows, a command of whitespace only, and two rows the
\* filter rejects.
SourceRows(el) ==
    { Row("a", "npx server-foo --flag", el, "search"),
      Row("a", "node\tb  c", el, "database"),
      Row("b", "docker run b", el, "search"),
      Row("w", "wrangler dev", el, "edge"),
      Row("github-mcp", "uvx gh", el, "vcs"),
      Row("c", " ", el, "misc"),
      Row("d", "npx d", "deprecated", "zeta"),
      Row("f", "npx f", OtherStatus(el), "zeta") }

\* Rows of a CSV that has only the three required columns.
BareRows(el) == { [mcp_name |-> "e", command |-> "npx e", status |-> el] }

Unreadable == [readable |-> FALSE, rows |-> <<>>]

\* The CSV files a script keeping status el may find: missing, or readable
\* with either header.
CsvFiles(el) ==
    {Unreadable} \cup
    { [readable |-> TRUE, rows |-> r] :
        r \in SeqsUpTo(SourceRows(el), MaxRows)
              \cup (SeqsUpTo(BareRows(el), MaxRows) \ {<<>>}) }

\* Lines of the curated-names file, as iterating the file yields them: an
\* ordinal marker before a name mapped to the container image, a mapped
\* name with blanks around it, an unmapped name, and a blank line.
CuratedLines ==
    { "1→github-mcp\n", "  filesystem-mcp \n", "2→a\n", "\n" }

NoCurated == [readable |-> FALSE, lines |-> <<>>]

CuratedFiles ==
    {NoCurated} \cup
    { [readable |-> TRUE, lines |-> l] : l \in SeqsUpTo(CuratedLines, MaxLines) }

\* The value of profile before the script has made or loaded one.
NoProfile ==
    [name |-> "", description |-> "", mcpServers |-> EmptyDict, metadata |-> EmptyDict]

\* The output file is absent; its directory ./.ncp/profiles exists.
NoFile == [exists |-> FALSE, dir |-> TRUE, content |-> NoProfile]

\* The directory ./.ncp/profiles is absent, and so is the output file.
NoDir == [exists |-> FALSE, dir |-> FALSE, content |-> NoProfile]

\* Snapshots build-profile may find in its output file: an empty profile,
\* and one that already holds an entry named like a CSV row.
ExistingProfiles ==
    { [name |-> "real-ecosystem", description |-> "Profile: real-ecosystem",
       mcpServers |-> EmptyDict,
       metadata |-> [created |-> 0, modified |-> 0]],
      [name |-> "real-ecosystem", description |-> "Profile: real-ecosystem",
       mcpServers |-> Put(EmptyDict, "a",
                          [command |-> "uvx", args |-> <<"old-a">>, category |-> "legacy"]),
       metadata |-> [created |-> 0, modified |-> 0, totalServers |-> 1,
                     categories |-> <<"legacy">>]] }

\* What a script may find at its output path; add-mcps has none.
OutputFiles(s) ==
    IF s = BuildProfile
    THEN {NoFile, NoDir}
            \cup {[exists |-> TRUE, dir |-> TRUE, content |-> p] : p \in ExistingProfiles}
    ELSE IF s = AddMcps THEN {NoFile}
    ELSE {NoFile, NoDir}

Init ==
    /\ script \in {BuildProfile, AddMcps, BuildTopProfile, BuildLiveEcosystem,
                   CreateWorkingProfile}
    /\ csv \in IF script = CreateWorkingProfile THEN {Unreadable}
               ELSE CsvFiles(EligibleStatus(script))
    /\ curated \in IF script = BuildLiveEcosystem THEN CuratedFiles ELSE {NoCurated}
    /\ outfile \in OutputFiles(script)
    /\ pc = "start"
    /\ profile = NoProfile
    /\ mcps = <<>>
    /\ idx = 1
    /\ production_count = 0
    /\ curated_count = 0
    /\ calls = <<>>
    /\ working_packages = <<>>
    /\ failed_packages = <<>>
    /\ exit_code = 0
    /\ written = FALSE
    /\ clock = 1
    /\ runs = 1

----------------------------------------------------------------------------
(* Steps shared by the scripts.                                            *)

\* An exception no handler catches: the interpreter prints the traceback
\* and the process ends with status 1, at once.
Uncaught ==
    /\ pc' = "done"
    /\ exit_code' = 1

\* with open(output_file, 'w') as f: json.dump(document, f, indent=2).  The
\* scripts never create the directory: when it is absent open() raises
\* FileNotFoundError, which no handler catches, and no file is made.
WriteProfile(document) ==
    IF outfile.dir
    THEN /\ outfile' = [exists |-> TRUE, dir |-> TRUE, content |-> document]
         /\ written' = TRUE
         /\ pc' = "done"
         /\ exit_code' = 0
    ELSE /\ Uncaught
         /\ UNCHANGED <<outfile, written>>

\* Parse command: the executable and the argument list of a non-empty
\* token list.
Executable(parts) == parts[1]

Args(parts) == IF Len(parts) > 1 THEN Tail(parts) ELSE <<>>

\* The entry build-profile and build-top-profile store for a row.
PlainEntry(parts) == [command |-> Executable(parts), args |-> Args(parts)]

----------------------------------------------------------------------------
(* build-profile.py                                                        *)

AllRows(rows) == rows

\* active_mcps = [row for row in reader if row['status'] == 'active']
active_mcps(rows) == SelectSeq(rows, LAMBDA row : row.status = "active")

BP_Overwrite(servers, mcp_name, entry) == Put(servers, mcp_name, entry)

\* Skip if already exists, else store the entry.
BP_Merge(servers, mcp_name, entry) ==
    IF mcp_name \in DOMAIN servers THEN servers ELSE Put(servers, mcp_name, entry)

\* Read existing profile.
BP_ReadProfile ==
    /\ script = BuildProfile
    /\ pc = "start"
    /\ IF outfile.exists
       THEN /\ profile' = outfile.content
            /\ pc' = "read_csv"
            /\ UNCHANGED exit_code
       ELSE /\ Uncaught
            /\ UNCHANGED profile
    /\ UNCHANGED <<script, csv, curated, outfile, mcps, idx, production_count,
                   curated_count, calls, working_packages, failed_packages,
                   written, clock, runs>>

\* Read MCPs from CSV.
BP_ReadCsv ==
    /\ script = BuildProfile
    /\ pc = "read_csv"
    /\ IF csv.readable
       THEN /\ mcps' = active_mcps(csv.rows)
            /\ idx' = 1
            /\ pc' = "merge"
            /\ UNCHANGED exit_code
       ELSE /\ Uncaught
            /\ UNCHANGED <<mcps, idx>>
    /\ UNCHANGED <<script, csv, curated, outfile, profile, production_count,
                   curated_count, calls, working_packages, failed_packages,
                   written, clock, runs>>

\* One turn of "for mcp in active_mcps".  parts[0] of a command with no
\* token raises IndexError, which nothing catches.
BP_AddMcp ==
    /\ script = BuildProfile
    /\ pc = "merge"
    /\ idx <= Len(mcps)
    /\ LET mcp == mcps[idx]
           parts == split(mcp.command)
       IN  IF parts = <<>>
           THEN /\ Uncaught
                /\ UNCHANGED <<profile, idx>>
           ELSE /\ profile' = [profile EXCEPT !.mcpServers =
                                 BP_Merge(@, mcp.mcp_name, PlainEntry(parts))]
                /\ idx' = idx + 1
                /\ UNCHANGED <<pc, exit_code>>
    /\ UNCHANGED <<script, csv, curated, outfile, mcps, production_count,
                   curated_count, calls, working_packages, failed_packages,
                   written, clock, runs>>

\* Update metadata and write the profile back.
BP_Write ==
    /\ script = BuildProfile
    /\ pc = "merge"
    /\ idx > Len(mcps)
    /\ profile' = [profile EXCEPT !.metadata = Put(@, "modified", clock)]
    /\ clock' = clock + 1
    /\ WriteProfile(profile')
    /\ UNCHANGED <<script, csv, curated, mcps, idx, production_count,
                   curated_count, calls, working_packages, failed_packages, runs>>

\* The script is run again, on the same CSV and on the output file as the
\* last run left it.
BP_Rerun ==
    /\ script = BuildProfile
    /\ pc = "done"
    /\ runs < MaxRuns
    /\ runs' = runs + 1
    /\ pc' = "start"
    /\ profile' = NoProfile
    /\ mcps' = <<>>
    /\ idx' = 1
    /\ exit_code' = 0
    /\ written' = FALSE
    /\ UNCHANGED <<script, csv, curated, outfile, production_count,
                   curated_count, calls, working_packages, failed_packages, clock>>

----------------------------------------------------------------------------
(* add-mcps.py                                                             *)

\* mcps = [row for row in reader if row['status'] == 'active']
AM_mcps(rows) == SelectSeq(rows, LAMBDA row : row.status = "active")

\* The argument vector of one launcher call.
AM_cmd(mcp_name, parts) ==
    <<"npx", "ncp", "add", mcp_name, Executable(parts),
      IF Len(parts) > 1 THEN join(" ", Tail(parts)) ELSE "",
      "--profiles", "live-ecosystem">>

AM_ReadCsv ==
    /\ script = AddMcps
    /\ pc = "start"
    /\ IF csv.readable
       THEN /\ mcps' = AM_mcps(csv.rows)
            /\ idx' = 1
            /\ pc' = "add"
            /\ UNCHANGED exit_code
       ELSE /\ Uncaught
            /\ UNCHANGED <<mcps, idx>>
    /\ UNCHANGED <<script, csv, curated, outfile, profile, production_count,
                   curated_count, calls, working_packages, failed_packages,
                   written, clock, runs>>

\* One turn of "for i, mcp in enumerate(mcps, 1)": the launcher is called
\* with the parsed command; whatever the call does, the loop goes on.
AM_Add ==
    /\ script = AddMcps
    /\ pc = "add"
    /\ idx <= Len(mcps)
    /\ LET mcp == mcps[idx]
           parts == split(mcp.command)
       IN  IF parts = <<>>
           THEN /\ Uncaught
                /\ UNCHANGED <<calls, idx>>
           ELSE /\ calls' = Append(calls, AM_cmd(mcp.mcp_name, parts))
                /\ idx' = idx + 1
                /\ UNCHANGED <<pc, exit_code>>
    /\ UNCHANGED <<script, csv, curated, outfile, profile, mcps, production_count,
                   curated_count, working_packages, failed_packages,
                   written, clock, runs>>

AM_Finish ==
    /\ script = AddMcps
    /\ pc = "add"
    /\ idx > Len(mcps)
    /\ pc' = "done"
    /\ exit_code' = 0
    /\ UNCHANGED <<script, csv, curated, outfile, profile, mcps, idx,
                   production_count, curated_count, calls, working_packages,
                   failed_packages, written, clock, runs>>

----------------------------------------------------------------------------
(* build-top-profile.py                                                    *)

\* production_mcps = [row for row in reader if row['status'] == 'production']
production_mcps(rows) == SelectSeq(rows, LAMBDA row : row.status = "production")

\* Skip Docker commands for now (more complex setup).
RequiresSpecialSetup(command) ==
    startswith(command, "docker") \/ startswith(command, "wrangler")

\* profile['mcpServers'][mcp_name] = {...}
BT_Store(servers, mcp_name, entry) == Put(servers, mcp_name, entry)

\* Create initial profile.
BT_Create ==
    /\ script = BuildTopProfile
    /\ pc = "start"
    /\ profile' =
         [name |-> "top-mcp-servers",
          description |-> "Profile: top-mcp-servers - Most popular production-ready MCP servers ranked by downloads and industry adoption",
          mcpServers |-> EmptyDict,
          metadata |-> [created |-> clock, modified |-> clock + 1]]
    /\ clock' = clock + 2
    /\ pc' = "read_csv"
    /\ UNCHANGED <<script, csv, curated, outfile, mcps, idx, production_count,
                   curated_count, calls, working_packages, failed_packages,
                   exit_code, written, runs>>

\* Read MCPs from CSV.
BT_ReadCsv ==
    /\ script = BuildTopProfile
    /\ pc = "read_csv"
    /\ IF csv.readable
       THEN /\ mcps' = production_mcps(csv.rows)
            /\ idx' = 1
            /\ pc' = "insert"
            /\ UNCHANGED exit_code
       ELSE /\ Uncaught
            /\ UNCHANGED <<mcps, idx>>
    /\ UNCHANGED <<script, csv, curated, outfile, profile, production_count,
                   curated_count, calls, working_packages, failed_packages,
                   written, clock, runs>>

\* One turn of "for mcp in production_mcps".
BT_AddMcp ==
    /\ script = BuildTopProfile
    /\ pc = "insert"
    /\ idx <= Len(mcps)
    /\ LET mcp == mcps[idx]
           parts == split(mcp.command)
       IN  IF RequiresSpecialSetup(mcp.command)
           THEN /\ idx' = idx + 1
                /\ UNCHANGED <<profile, pc, exit_code>>
           ELSE IF parts = <<>>
           THEN /\ Uncaught
                /\ UNCHANGED <<profile, idx>>
           ELSE /\ profile' = [profile EXCEPT !.mcpServers =
                                 BT_Store(@, mcp.mcp_name, PlainEntry(parts))]
                /\ idx' = idx + 1
                /\ UNCHANGED <<pc, exit_code>>
    /\ UNCHANGED <<script, csv, curated, outfile, mcps, production_count,
                   curated_count, calls, working_packages, failed_packages,
                   written, clock, runs>>

\* Write profile.
BT_Write ==
    /\ script = BuildTopProfile
    /\ pc = "insert"
    /\ idx > Len(mcps)
    /\ WriteProfile(profile)
    /\ UNCHANGED <<script, csv, curated, profile, mcps, idx, production_count,
                   curated_count, calls, working_packages, failed_packages,
                   clock, runs>>

----------------------------------------------------------------------------
(* build-live-ecosystem.py                                                 *)

\* The entry stored for a production row; row.get supplies the defaults of
\* columns the CSV does not have.
BL_ProductionEntry(row, parts) ==
    [command |-> Executable(parts),
     args |-> Args(parts),
     description |-> Get(row, "description",
                         row.mcp_name \o " operations and integrations"),
     category |-> Get(row, "category", "production"),
     downloads |-> Get(row, "downloads", "unknown"),
     repository_url |-> Get(row, "repository_url", ""),
     metadata |-> [type |-> "production", source |-> "top-mcp-servers",
                   verified |-> TRUE]]

\* profile['mcpServers'][mcp_name] = {...} of the production load.
BL_Store(servers, mcp_name, entry) == Put(servers, mcp_name, entry)

\* Extract MCP name (remove line numbers), from a stripped, non-empty line.
CuratedName(line) ==
    IF Contains(line, "→") THEN strip(split_on(line, "→")[2]) ELSE strip(line)

\* A command structure without the container case.
CuratedCommandNpxOnly(package_name) ==
    [command |-> "npx", args |-> <<package_name>>]

\* Determine command structure.
CuratedCommand(package_name) ==
    IF startswith(package_name, "@") \/ startswith(package_name, "github-")
    THEN IF package_name = "github-mcp-server"
         THEN [command |-> "docker", args |-> <<"run", "ghcr.io/github/github-mcp-server">>]
         ELSE [command |-> "npx", args |-> <<package_name>>]
    ELSE [command |-> "npx", args |-> <<package_name>>]

\* The entry stored for a curated name mapped to package_name.
CuratedEntry(mcp_name, package_name) ==
    [command |-> CuratedCommand(package_name).command,
     args |-> CuratedCommand(package_name).args,
     description |-> "Real production " \o mcp_name \o " server with verified functionality",
     category |-> "curated-real",
     package_name |-> package_name,
     metadata |-> [type |-> "curated-real", source |-> "ecosystem-mapping",
                   verified |-> FALSE, originalName |-> mcp_name]]

\* Whether the curated loop stores an entry for mcp_name: the name is not
\* yet in the profile and the table maps it.
BL_CuratedAdds(servers, mcp_name) ==
    /\ mcp_name \notin DOMAIN servers
    /\ mcp_name \in DOMAIN real_mcp_mappings

\* A curated merge that stores over an entry the production load made.
BL_CuratedMergeNoSkip(servers, mcp_name) ==
    IF mcp_name \in DOMAIN real_mcp_mappings
    THEN Put(servers, mcp_name, CuratedEntry(mcp_name, real_mcp_mappings[mcp_name]))
    ELSE servers

\* A curated merge that makes up a package for a name the table lacks.
BL_CuratedMergeGuess(servers, mcp_name) ==
    IF mcp_name \in DOMAIN servers THEN servers
    ELSE IF mcp_name \in DOMAIN real_mcp_mappings
    THEN Put(servers, mcp_name, CuratedEntry(mcp_name, real_mcp_mappings[mcp_name]))
    ELSE Put(servers, mcp_name, CuratedEntry(mcp_name, "@" \o mcp_name \o "/mcp-server"))

\* The mapping after the curated loop has handled mcp_name: skip if already
\* added from the production list, skip a name without a real mapping.
BL_CuratedMerge(servers, mcp_name) ==
    IF mcp_name \in DOMAIN servers THEN servers
    ELSE IF mcp_name \in DOMAIN real_mcp_mappings
    THEN Put(servers, mcp_name, CuratedEntry(mcp_name, real_mcp_mappings[mcp_name]))
    ELSE servers

\* Collect categories.
Categories(servers) ==
    sorted({servers[n].category : n \in {m \in DOMAIN servers : "category" \in DOMAIN servers[m]}})

\* Create profile.
BL_Create ==
    /\ script = BuildLiveEcosystem
    /\ pc = "start"
    /\ profile' =
         [name |-> "live-ecosystem",
          description |-> "Profile: live-ecosystem - Comprehensive stress test with 100+ real production MCP servers from the 2025 ecosystem",
          mcpServers |-> EmptyDict,
          metadata |-> [created |-> clock, modified |-> clock + 1, totalServers |-> 0,
                        productionReady |-> 0, categories |-> <<>>]]
    /\ clock' = clock + 2
    /\ production_count' = 0
    /\ pc' = "load_production"
    /\ UNCHANGED <<script, csv, curated, outfile, mcps, idx, curated_count, calls,
                   working_packages, failed_packages, exit_code, written, runs>>

\* Load production MCPs first: open the CSV.  A failure is caught by the
\* except clause and the script goes on to the curated names.
BL_OpenProduction ==
    /\ script = BuildLiveEcosystem
    /\ pc = "load_production"
    /\ idx' = 1
    /\ pc' = IF csv.readable THEN "production_rows" ELSE "load_curated"
    /\ UNCHANGED <<script, csv, curated, outfile, profile, mcps, production_count,
                   curated_count, calls, working_packages, failed_packages,
                   exit_code, written, clock, runs>>

\* One turn of "for row in reader".  The IndexError of a command with no
\* token is caught by the except clause, which ends the production load.
BL_ProductionRow ==
    /\ script = BuildLiveEcosystem
    /\ pc = "production_rows"
    /\ idx <= Len(csv.rows)
    /\ LET row == csv.rows[idx]
           parts == split(row.command)
       IN  IF row.status # "production" \/ RequiresSpecialSetup(row.command)
           THEN /\ idx' = idx + 1
                /\ UNCHANGED <<profile, production_count, pc>>
           ELSE IF parts = <<>>
           THEN /\ pc' = "load_curated"
                /\ UNCHANGED <<profile, production_count, idx>>
           ELSE /\ profile' = [profile EXCEPT !.mcpServers =
                                 BL_Store(@, row.mcp_name, BL_ProductionEntry(row, parts))]
                /\ production_count' = production_count + 1
                /\ idx' = idx + 1
                /\ UNCHANGED pc
    /\ UNCHANGED <<script, csv, curated, outfile, mcps, curated_count, calls,
                   working_packages, failed_packages, exit_code, written, clock, runs>>

\* Load curated names and map to real packages: open the file, once the
\* production load has ended.  A failure is caught and the loop is skipped.
BL_OpenCurated ==
    /\ script = BuildLiveEcosystem
    /\ \/ pc = "load_curated"
       \/ pc = "production_rows" /\ idx > Len(csv.rows)
    /\ curated_count' = 0
    /\ idx' = 1
    /\ pc' = IF curated.readable THEN "curated_lines" ELSE "finalize"
    /\ UNCHANGED <<script, csv, curated, outfile, profile, mcps, production_count,
                   calls, working_packages, failed_packages, exit_code, written,
                   clock, runs>>

\* One turn of "for line in f".
BL_CuratedLine ==
    /\ script = BuildLiveEcosystem
    /\ pc = "curated_lines"
    /\ idx <= Len(curated.lines)
    /\ LET line == strip(curated.lines[idx])
           mcp_name == CuratedName(line)
       IN  IF line = ""
           THEN UNCHANGED <<profile, curated_count>>
           ELSE /\ profile' = [profile EXCEPT !.mcpServers = BL_CuratedMerge(@, mcp_name)]
                /\ curated_count' = IF BL_CuratedAdds(profile.mcpServers, mcp_name)
                                    THEN curated_count + 1 ELSE curated_count
    /\ idx' = idx + 1
    /\ UNCHANGED <<script, csv, curated, outfile, mcps, production_count, calls,
                   working_packages, failed_packages, exit_code, written, clock,
                   runs, pc>>

\* Update metadata, collect categories and write the profile.
BL_Finalize ==
    /\ script = BuildLiveEcosystem
    /\ \/ pc = "finalize"
       \/ pc = "curated_lines" /\ idx > Len(curated.lines)
    /\ profile' = [profile EXCEPT !.metadata =
                     Put(Put(Put(Put(@, "totalServers", Cardinality(DOMAIN profile.mcpServers)),
                                 "productionReady", production_count),
                             "curatedReal", curated_count),
                         "categories", Categories(profile.mcpServers))]
    /\ WriteProfile(profile')
    /\ UNCHANGED <<script, csv, curated, mcps, idx, production_count,
                   curated_count, calls, working_packages, failed_packages,
                   clock, runs>>

----------------------------------------------------------------------------
(* create-working-profile.py                                               *)

Package(name, package, args, category) ==
    [name |-> name, package |-> package, args |-> args, category |-> category]

test_packages ==
    << Package("filesystem", "@modelcontextprotocol/server-filesystem", <<"/tmp">>, "file-operations"),
       Package("memory", "@modelcontextprotocol/server-memory", <<>>, "ai-memory"),
       Package("figma", "figma-mcp", <<>>, "design"),
       Package("ref-tools", "ref-tools-mcp", <<>>, "development"),
       Package("browser", "@agent-infra/mcp-server-browser", <<>>, "browser-automation"),
       Package("context7", "@upstash/context7-mcp", <<>>, "ai-context"),
       Package("browserbase", "@browserbase/mcp-server-browserbase", <<>>, "browser-automation"),
       Package("elevenlabs", "@elevenlabs/elevenlabs-mcp", <<>>, "audio-ai"),
       Package("sanity", "@sanity-io/sanity-mcp-server", <<>>, "content-management"),
       Package("dataforseo", "@dataforseo/mcp-server-typescript", <<>>, "seo-analytics"),
       Package("chroma", "@chroma-core/chroma-mcp", <<>>, "vector-database"),
       Package("azure", "@azure/azure-mcp", <<>>, "cloud-infrastructure"),
       Package("playwright", "@microsoft/mcp-playwright", <<>>, "browser-automation"),
       Package("supabase", "@supabase/mcp-server-supabase", <<>>, "database"),
       Package("docker", "@docker/mcp-server", <<>>, "containerization") >>

\* Python's None.
None == [type |-> "NoneType"]

\* What "npm view <package> version" may do within the 10 s deadline: print
\* a version, print nothing, fail with a message, run out of time, or fail
\* to start.
ProbeOutcomes ==
    { [kind |-> "completed", returncode |-> 0, stdout |-> "1.2.3\n", stderr |-> ""],
      [kind |-> "completed", returncode |-> 0, stdout |-> "\n", stderr |-> ""],
      [kind |-> "completed", returncode |-> 1, stdout |-> "", stderr |-> "npm ERR! code E404\n"],
      [kind |-> "TimeoutExpired", returncode |-> 0, stdout |-> "", stderr |-> ""],
      [kind |-> "Exception", returncode |-> 0, stdout |-> "", stderr |-> "No such file or directory: npm"] }

\* test_package(package_info), given what the npm call did.
test_package(package_info, outcome) ==
    IF outcome.kind = "TimeoutExpired"
    THEN [name |-> package_info.name, package |-> package_info.package,
          status |-> "timeout", error |-> "Command timed out"]
    ELSE IF outcome.kind = "Exception"
    THEN [name |-> package_info.name, package |-> package_info.package,
          status |-> "error", error |-> outcome.stderr]
    ELSE IF outcome.returncode = 0 /\ strip(outcome.stdout) # ""
    THEN [name |-> package_info.name, package |-> package_info.package,
          args |-> package_info.args, category |-> package_info.category,
          status |-> "exists", version |-> strip(outcome.stdout), error |-> None]
    ELSE [name |-> package_info.name, package |-> package_info.package,
          status |-> "not_found",
          error |-> IF outcome.stderr # "" THEN strip(outcome.stderr)
                    ELSE "Package not found"]

\* server_config of create_working_profile for pkg, tested at time now.
ServerConfig(pkg, now) ==
    [command |-> "npx",
     args |-> <<pkg.package>> \o pkg.args,
     description |-> "Verified working " \o pkg.name \o " MCP server",
     category |-> pkg.category,
     package_name |-> pkg.package,
     version |-> Get(pkg, "version", "unknown"),
     metadata |-> [type |-> "verified-working", source |-> "npm-test",
                   verified |-> TRUE, tested_date |-> now]]

\* The loop of create_working_profile over the first k packages; the loop's
\* i-th turn reads the time now + i - 1.
RECURSIVE WorkingServers(_, _, _)
WorkingServers(pkgs, k, now) ==
    IF k = 0 THEN EmptyDict
    ELSE Put(WorkingServers(pkgs, k - 1, now), pkgs[k].name,
             ServerConfig(pkgs[k], now + k - 1))

\* create_working_profile(working_packages), called at time now.
create_working_profile(pkgs, now) ==
    [name |-> "working-ecosystem",
     description |-> "Profile: working-ecosystem - Only verified working MCP servers that actually exist and can be installed",
     mcpServers |-> WorkingServers(pkgs, Len(pkgs), now + 2),
     metadata |-> [created |-> now, modified |-> now + 1,
                   totalServers |-> Len(pkgs),
                   testedPackages |-> Len(test_packages),
                   workingPackages |-> Len(pkgs),
                   categories |-> sorted({pkgs[i].category : i \in 1..Len(pkgs)})]]

\* The result the loop recorded for the k-th package, k < idx: it stands in
\* one of the two lists, under the package's name.
ResultOf(k) ==
    LET name == test_packages[k].name
    IN  IF \E i \in 1..Len(working_packages) : working_packages[i].name = name
        THEN working_packages[CHOOSE i \in 1..Len(working_packages) :
                                 working_packages[i].name = name]
        ELSE failed_packages[CHOOSE i \in 1..Len(failed_packages) :
                                failed_packages[i].name = name]

\* What kind of answer a result records: a version, or a status with its
\* message.
AnswerKind(result) ==
    IF result.status = "exists" THEN "exists"
    ELSE result.status \o ": " \o result.error

\* How often the kind of answer changed from one probe to the next, over the
\* probes made so far.
Changes ==
    Cardinality({k \in 2..(idx - 1) : AnswerKind(ResultOf(k)) # AnswerKind(ResultOf(k - 1))})

\* The runs the model follows: npm may answer each probe in any way, as long
\* as the kind of answer changes at most MaxChanges times in the run.
WithinChanges(result) ==
    IF idx = 1 THEN TRUE
    ELSE IF AnswerKind(result) = AnswerKind(ResultOf(idx - 1)) THEN TRUE
    ELSE Changes < MaxChanges

\* One turn of the loop in which a probe that runs out of time ends the run
\* instead of being recorded.
CW_ProbeTimeoutFatal ==
    /\ script = CreateWorkingProfile
    /\ pc = "start"
    /\ idx <= Len(test_packages)
    /\ \E outcome \in ProbeOutcomes :
         LET result == test_package(test_packages[idx], outcome)
         IN  /\ WithinChanges(result)
             /\ IF result.status = "exists"
                THEN /\ working_packages' = Append(working_packages, result)
                     /\ idx' = idx + 1
                     /\ UNCHANGED <<failed_packages, pc, exit_code>>
                ELSE IF result.status = "timeout"
                THEN /\ pc' = "done"
                     /\ exit_code' = 1
                     /\ UNCHANGED <<working_packages, failed_packages, idx>>
                ELSE /\ failed_packages' = Append(failed_packages, result)
                     /\ idx' = idx + 1
                     /\ UNCHANGED <<working_packages, pc, exit_code>>
    /\ UNCHANGED <<script, csv, curated, outfile, profile, mcps, production_count,
                   curated_count, calls, written, clock, runs>>

\* One turn of "for i, pkg_info in enumerate(test_packages, 1)".
CW_Probe ==
    /\ script = CreateWorkingProfile
    /\ pc = "start"
    /\ idx <= Len(test_packages)
    /\ \E outcome \in ProbeOutcomes :
         LET result == test_package(test_packages[idx], outcome)
         IN  /\ WithinChanges(result)
             /\ IF result.status = "exists"
                THEN /\ working_packages' = Append(working_packages, result)
                     /\ UNCHANGED failed_packages
                ELSE /\ failed_packages' = Append(failed_packages, result)
                     /\ UNCHANGED working_packages
    /\ idx' = idx + 1
    /\ UNCHANGED <<script, pc, csv, curated, outfile, profile, mcps, production_count,
                   curated_count, calls, exit_code, written, clock, runs>>

\* Create profile with working packages and save it, or exit with status 1
\* when there is none.
CW_Finish ==
    /\ script = CreateWorkingProfile
    /\ pc = "start"
    /\ idx > Len(test_packages)
    /\ IF working_packages # <<>>
       THEN /\ profile' = create_working_profile(working_packages, clock)
            /\ clock' = clock + 2 + Len(working_packages)
            /\ WriteProfile(profile')
       ELSE /\ pc' = "done"
            /\ exit_code' = 1
            /\ UNCHANGED <<profile, clock, outfile, written>>
    /\ UNCHANGED <<script, csv, curated, mcps, idx, production_count, curated_count,
                   calls, working_packages, failed_packages, runs>>

----------------------------------------------------------------------------

Next ==
    \/ BP_ReadProfile
    \/ BP_ReadCsv
    \/ BP_AddMcp
    \/ BP_Write
    \/ BP_Rerun
    \/ AM_ReadCsv
    \/ AM_Add
    \/ AM_Finish
    \/ BT_Create
    \/ BT_ReadCsv
    \/ BT_AddMcp
    \/ BT_Write
    \/ BL_Create
    \/ BL_OpenProduction
    \/ BL_ProductionRow
    \/ BL_OpenCurated
    \/ BL_CuratedLine
    \/ BL_Finalize
    \/ CW_Probe
    \/ CW_Finish

Spec == Init /\ [][Next]_vars

----------------------------------------------------------------------------
(* Vocabulary of the properties.                                           *)

\* The mapping of the profile last written to the output file.
WrittenServers == outfile.content.mcpServers

\* The name the curated loop reads on line i, "" for a blank line.
CuratedNameAt(i) ==
    IF strip(curated.lines[i]) = "" THEN "" ELSE CuratedName(strip(curated.lines[i]))

\* The curated names of the run.
CuratedNames == {CuratedNameAt(i) : i \in 1..Len(curated.lines)} \ {""}

\* Entry e under name n is one of a snapshot build-profile may have loaded.
FromSnapshot(n, e) ==
    \E p \in ExistingProfiles : n \in DOMAIN p.mcpServers /\ p.mcpServers[n] = e

\* The names and entries a run built from CSV rows, in memory or on file.
CsvBuilt(servers) ==
    { <<n, servers[n]>> : n \in
        { m \in DOMAIN servers :
            CASE script = BuildProfile -> ~FromSnapshot(m, servers[m])
              [] script = BuildTopProfile -> TRUE
              [] script = BuildLiveEcosystem -> servers[m].metadata.type = "production"
              [] OTHER -> FALSE } }

AllCsvBuilt == CsvBuilt(profile.mcpServers) \cup CsvBuilt(WrittenServers)

\* The positions of c where a run of non-whitespace characters begins.
RunStarts(c) ==
    { i \in 1..Len(c) :
        /\ Char(c, i) \notin Whitespace
        /\ i = 1 \/ Char(c, i - 1) \in Whitespace }

\* Where the run beginning at i ends.
RunEnd(c, i) ==
    CHOOSE j \in i..Len(c) :
        /\ \A k \in i..j : Char(c, k) \notin Whitespace
        /\ j = Len(c) \/ Char(c, j + 1) \in Whitespace

\* The maximal runs of non-whitespace characters of c, from left to right.
RunTokens(c) ==
    [k \in 1..Cardinality(RunStarts(c)) |->
        LET s == CHOOSE i \in RunStarts(c) :
                    Cardinality({r \in RunStarts(c) : r < i}) = k - 1
        IN  SubSeq(c, s, RunEnd(c, s))]

\* The executable followed by the arguments of entry e.
TokensIn(e) == <<e.command>> \o e.args

----------------------------------------------------------------------------
(* C1.  Merging in priority order never replaces or alters an entry of the *)
(* higher-priority source: while build-live-ecosystem runs its curated     *)
(* loop, and while build-profile merges the CSV into the loaded snapshot,  *)
(* every entry already in mcpServers stays as it is, and the write stores  *)
(* exactly the mapping in memory.                                          *)
C1_HigherPriorityKept ==
    [][ /\ (script = BuildLiveEcosystem /\ pc \in {"curated_lines", "finalize"}) =>
              \A n \in DOMAIN profile.mcpServers :
                  /\ n \in DOMAIN profile'.mcpServers
                  /\ profile'.mcpServers[n] = profile.mcpServers[n]
        /\ (script = BuildProfile /\ pc = "merge") =>
              \A n \in DOMAIN outfile.content.mcpServers :
                  /\ n \in DOMAIN profile'.mcpServers
                  /\ profile'.mcpServers[n] = outfile.content.mcpServers[n]
        /\ (script \in {BuildLiveEcosystem, BuildProfile} /\ written' /\ ~written) =>
              outfile'.content.mcpServers = profile.mcpServers
      ]_vars

\* A written live-ecosystem profile keeps the production entry of a name
\* the curated file also lists and the table maps.
C1_Witness ==
    /\ script = BuildLiveEcosystem
    /\ pc = "done"
    /\ written
    /\ "github-mcp" \in CuratedNames
    /\ "github-mcp" \in DOMAIN WrittenServers
    /\ WrittenServers["github-mcp"].metadata.type = "production"

(* C2.  No record comes from a row whose status is not the eligible one:   *)
(* every entry a run builds from the CSV, and every launcher call, has the *)
(* name and the parsed command of some row with the eligible status.       *)
C2_OnlyEligibleRows ==
    /\ \A ne \in AllCsvBuilt :
          \E i \in 1..Len(csv.rows) :
              /\ csv.rows[i].status = EligibleStatus(script)
              /\ csv.rows[i].mcp_name = ne[1]
              /\ split(csv.rows[i].command) = TokensIn(ne[2])
    /\ script = AddMcps =>
          \A k \in 1..Len(calls) :
              \E i \in 1..Len(csv.rows) :
                  /\ csv.rows[i].status = "active"
                  /\ csv.rows[i].mcp_name = calls[k][4]
                  /\ split(csv.rows[i].command)[1] = calls[k][5]

\* A run of build-top-profile over a CSV with a rejected row and a kept row
\* has written a profile with an entry.
C2_Witness ==
    /\ script = BuildTopProfile
    /\ pc = "done"
    /\ written
    /\ \E i \in 1..Len(csv.rows) : csv.rows[i].status # "production"
    /\ WrittenServers # EmptyDict

(* C3.  In every written profile, metadata.totalServers is the number of   *)
(* keys of mcpServers and metadata.categories is the sorted list of the    *)
(* distinct category values of its entries.                                *)
C3_MetadataMatchesServers ==
    (written /\ script # AddMcps) =>
        /\ "totalServers" \in DOMAIN outfile.content.metadata
        /\ outfile.content.metadata.totalServers = Cardinality(DOMAIN WrittenServers)
        /\ "categories" \in DOMAIN outfile.content.metadata
        /\ outfile.content.metadata.categories = Categories(WrittenServers)

(* C4.  Re-running build-profile is an idempotent merge: a run that writes *)
(* keeps every entry of the profile it loaded, with the same command and   *)
(* args, and a second run over the same CSV writes the mapping it loaded.  *)
C4_RerunKeepsEntries ==
    [][ (script = BuildProfile /\ written' /\ ~written) =>
          /\ \A n \in DOMAIN outfile.content.mcpServers :
                /\ n \in DOMAIN outfile'.content.mcpServers
                /\ outfile'.content.mcpServers[n].command = outfile.content.mcpServers[n].command
                /\ outfile'.content.mcpServers[n].args = outfile.content.mcpServers[n].args
          /\ runs >= 2 => outfile'.content.mcpServers = outfile.content.mcpServers
      ]_vars

\* The second run has written a profile that holds the entry of the first
\* snapshot and an entry the first run merged in; the CSV names both.
C4_Witness ==
    /\ script = BuildProfile
    /\ runs = 2
    /\ pc = "done"
    /\ written
    /\ "a" \in DOMAIN WrittenServers
    /\ FromSnapshot("a", WrittenServers["a"])
    /\ "github-mcp" \in DOMAIN WrittenServers
    /\ \E i \in 1..Len(mcps) : mcps[i].mcp_name = "a"

(* C5, as claimed.  A written live-ecosystem profile has no entry under a  *)
(* curated name the table does not map, whatever the production CSV holds. *)
C5_NoEntryForUnmappedName ==
    (script = BuildLiveEcosystem /\ written) =>
        \A n \in CuratedNames :
            n \notin DOMAIN real_mcp_mappings => n \notin DOMAIN WrittenServers

(* C5, amended.  The curated merge makes no entry for a curated name the   *)
(* table does not map: in build-live-ecosystem an entry under such a name, *)
(* in memory or written, is one the production load stored.                *)
C5_NoCuratedEntryForUnmappedName ==
    script = BuildLiveEcosystem =>
        \A n \in CuratedNames :
            n \notin DOMAIN real_mcp_mappings =>
                /\ n \in DOMAIN profile.mcpServers =>
                      profile.mcpServers[n].metadata.type = "production"
                /\ n \in DOMAIN WrittenServers =>
                      WrittenServers[n].metadata.type = "production"

\* A run whose curated file lists an unmapped name and a mapped one has
\* written a profile with the mapped name and without the unmapped one.
C5_Witness ==
    /\ script = BuildLiveEcosystem
    /\ pc = "done"
    /\ written
    /\ curated_count >= 1
    /\ \E n \in CuratedNames :
          n \notin DOMAIN real_mcp_mappings /\ n \notin DOMAIN WrittenServers

(* C6.  An entry of the curated merge is derived from the mapped package   *)
(* alone: package_name is the package the table gives for the name;        *)
(* 'github-mcp-server' yields docker run ghcr.io/github/github-mcp-server, *)
(* any other package yields npx with the package as only argument.         *)
C6_CuratedCommandFromPackage ==
    script = BuildLiveEcosystem =>
        \A n \in DOMAIN profile.mcpServers :
            LET e == profile.mcpServers[n]
            IN  e.metadata.type = "curated-real" =>
                  /\ n \in DOMAIN real_mcp_mappings
                  /\ e.package_name = real_mcp_mappings[n]
                  /\ IF e.package_name = "github-mcp-server"
                     THEN /\ e.command = "docker"
                          /\ e.args = <<"run", "ghcr.io/github/github-mcp-server">>
                     ELSE /\ e.command = "npx"
                          /\ e.args = <<e.package_name>>

\* The curated merge has stored the container entry and an npx entry.
C6_Witness ==
    /\ script = BuildLiveEcosystem
    /\ "github-mcp" \in DOMAIN profile.mcpServers
    /\ profile.mcpServers["github-mcp"].metadata.type = "curated-real"
    /\ profile.mcpServers["github-mcp"].command = "docker"
    /\ "filesystem-mcp" \in DOMAIN profile.mcpServers
    /\ profile.mcpServers["filesystem-mcp"].command = "npx"

(* C7.  A launch command is split on whitespace only: the executable and   *)
(* the args of every entry built from a CSV row are the maximal runs of    *)
(* non-whitespace characters of that row's command, in order; joining them *)
(* with single spaces gives a string with the same tokens.  The launcher   *)
(* calls of add-mcps carry the first run and the others joined by spaces.  *)
C7_CommandSplitOnWhitespace ==
    /\ \A ne \in AllCsvBuilt :
          /\ \E i \in 1..Len(csv.rows) :
                /\ csv.rows[i].mcp_name = ne[1]
                /\ TokensIn(ne[2]) = RunTokens(csv.rows[i].command)
          /\ RunTokens(join(" ", TokensIn(ne[2]))) = TokensIn(ne[2])
    /\ script = AddMcps =>
          \A k \in 1..Len(calls) :
              \E i \in 1..Len(csv.rows) :
                  /\ csv.rows[i].mcp_name = calls[k][4]
                  /\ calls[k][5] = RunTokens(csv.rows[i].command)[1]
                  /\ calls[k][6] = join(" ", Tail(RunTokens(csv.rows[i].command)))

\* build-profile has written the entry of "npx server-foo --flag".
C7_Witness ==
    /\ script = BuildProfile
    /\ written
    /\ \E i \in 1..Len(csv.rows) :
          /\ csv.rows[i].command = "npx server-foo --flag"
          /\ csv.rows[i].mcp_name \in DOMAIN WrittenServers
          /\ WrittenServers[csv.rows[i].mcp_name].command = "npx"
          /\ WrittenServers[csv.rows[i].mcp_name].args = <<"server-foo", "--flag">>

\* A source file of the run is missing or unreadable: the CSV of a builder
\* (for build-profile, with the snapshot it loads first in place), or the
\* curated-names file.
SourceUnavailable ==
    \/ script \in {BuildTopProfile, BuildLiveEcosystem} /\ ~csv.readable
    \/ script = BuildProfile /\ profile # NoProfile /\ ~csv.readable
    \/ script = BuildLiveEcosystem /\ ~curated.readable

(* C8.  In every builder a missing or unreadable source file only skips    *)
(* its load step: the run still ends normally and writes the profile       *)
(* (where the output directory exists, so that the write itself can        *)
(* succeed).                                                               *)
C8_MissingSourceOnlySkipsLoad ==
    (pc = "done" /\ SourceUnavailable /\ outfile.dir) => (written /\ exit_code = 0)

(* C9.  A run fails (non-zero exit, no profile written) exactly when it    *)
(* produced no usable record; stated for the scripts that build a fresh    *)
(* profile.                                                                *)
C9_FailsExactlyWhenNoRecords ==
    (pc = "done" /\ script \in {BuildTopProfile, BuildLiveEcosystem, CreateWorkingProfile}) =>
        ((exit_code # 0 /\ ~written) <=>
            IF script = CreateWorkingProfile
            THEN working_packages = <<>>
            ELSE profile.mcpServers = EmptyDict)

(* C10.  The merge is first-writer-wins in every builder: no step of a     *)
(* running script changes or removes an entry already in mcpServers.       *)
C10_FirstWriterWins ==
    [][ pc \notin {"start", "done"} =>
          \A n \in DOMAIN profile.mcpServers :
              /\ n \in DOMAIN profile'.mcpServers
              /\ profile'.mcpServers[n] = profile.mcpServers[n]
      ]_vars

(* C11.  The merge omits no eligible record: in a written profile, every   *)
(* row with the eligible status whose name no other row carries has an     *)
(* entry under its name, with the row's executable and arguments (or, in   *)
(* build-profile, the entry of the loaded snapshot), whatever its command  *)
(* is, commands starting with docker or wrangler included.                 *)
C11_NoEligibleRowOmitted ==
    (written /\ script \in {BuildProfile, BuildTopProfile, BuildLiveEcosystem}) =>
        \A i \in 1..Len(csv.rows) :
            ( /\ csv.rows[i].status = EligibleStatus(script)
              /\ \A j \in 1..Len(csv.rows) :
                    j # i => csv.rows[j].mcp_name # csv.rows[i].mcp_name ) =>
                /\ csv.rows[i].mcp_name \in DOMAIN WrittenServers
                /\ \/ TokensIn(WrittenServers[csv.rows[i].mcp_name]) = split(csv.rows[i].command)
                   \/ FromSnapshot(csv.rows[i].mcp_name, WrittenServers[csv.rows[i].mcp_name])

\* The number of entries of servers whose metadata.type is type.
CountOfType(servers, type) ==
    Cardinality({n \in DOMAIN servers : servers[n].metadata.type = type})

(* C12.  In the profile build-live-ecosystem writes, each provenance       *)
(* subtotal is the number of entries of that provenance: productionReady   *)
(* counts the entries of type production, curatedReal those of type        *)
(* curated-real, and the two add up to totalServers.                       *)
C12_SubtotalsCountEntries ==
    (script = BuildLiveEcosystem /\ written) =>
        /\ outfile.content.metadata.productionReady = CountOfType(WrittenServers, "production")
        /\ outfile.content.metadata.curatedReal = CountOfType(WrittenServers, "curated-real")
        /\ outfile.content.metadata.productionReady + outfile.content.metadata.curatedReal
              = outfile.content.metadata.totalServers

\* The names of the probe results in the list results.
ResultNames(results) == {results[i].name : i \in 1..Len(results)}

\* The position of the package called name in the list the script probes.
TestedIndex(name) ==
    CHOOSE k \in 1..Len(test_packages) : test_packages[k].name = name

\* The probe results in the list results are of distinct packages and stand
\* in the order of the list the script probes.
InListOrder(results) ==
    \A i, j \in 1..Len(results) :
        i < j => TestedIndex(results[i].name) < TestedIndex(results[j].name)

(* C13. In create-working-profile every package of the list is probed exactly
   once, in list order and one at a time.  A probe that times out, raises an
   error or reports absence is recorded in failed_packages and the run goes
   on with the next package: after k turns of the loop the first k packages,
   and only they, are each in exactly one of working_packages (status
   'exists') or failed_packages (status 'not_found', 'timeout' or 'error'),
   so the sizes of the two lists sum to k; the run ends only after the last
   package was probed; and the written profile holds an entry exactly for
   the packages whose probe status is 'exists', with the package and the
   version the probe reported. *)
C13_EveryPackageProbedOnce ==
    script = CreateWorkingProfile =>
        /\ idx \in 1..(Len(test_packages) + 1)
        /\ Len(working_packages) + Len(failed_packages) = idx - 1
        /\ ResultNames(working_packages) \cup ResultNames(failed_packages)
              = {test_packages[k].name : k \in 1..(idx - 1)}
        /\ ResultNames(working_packages) \cap ResultNames(failed_packages) = {}
        /\ InListOrder(working_packages)
        /\ InListOrder(failed_packages)
        /\ \A i \in 1..Len(working_packages) :
              /\ working_packages[i].status = "exists"
              /\ working_packages[i].package
                    = test_packages[TestedIndex(working_packages[i].name)].package
        /\ \A i \in 1..Len(failed_packages) :
              /\ failed_packages[i].status \in {"not_found", "timeout", "error"}
              /\ failed_packages[i].package
                    = test_packages[TestedIndex(failed_packages[i].name)].package
        /\ pc = "done" =>
              /\ idx = Len(test_packages) + 1
              /\ written <=> (working_packages # <<>> /\ outfile.dir)
        /\ written =>
              /\ DOMAIN WrittenServers = ResultNames(working_packages)
              /\ \A i \in 1..Len(working_packages) :
                    /\ WrittenServers[working_packages[i].name].package_name
                          = working_packages[i].package
                    /\ WrittenServers[working_packages[i].name].version
                          = working_packages[i].version

\* create-working-profile has probed every package, ended and written a
\* profile, after a probe that timed out was followed by one that succeeded.
C13_Witness ==
    /\ script = CreateWorkingProfile
    /\ pc = "done"
    /\ written
    /\ Len(working_packages) + Len(failed_packages) = Len(test_packages)
    /\ \E i \in 1..Len(failed_packages), j \in 1..Len(working_packages) :
          /\ failed_packages[i].status = "timeout"
          /\ TestedIndex(failed_packages[i].name) < TestedIndex(working_packages[j].name)
          /\ working_packages[j].name \in DOMAIN WrittenServers

====
